---- MODULE Spec2Model ----
(***************************************************************************)
(* coopScraper: the job-posting extraction core (scrape/job.py) and the    *)
(* batch driver (scrape/__init__.py).                                      *)
(*                                                                         *)
(* Text is modelled by TLA+ strings, processed character by character the  *)
(* way the Python string methods do.  A float is an exact rational         *)
(* <<numerator, denominator>> in lowest terms with a positive denominator; *)
(* Python's None is the empty tuple.                                       *)
(***************************************************************************)
EXTENDS Integers, Sequences, FiniteSets, TLC

VARIABLES
    lists,      \* the list objects: the module-level FIELD_TITLES and a factory's self.fields
    page,       \* driver.page_source / the page handed to JobFactory
    job_inf,    \* JobFactory.job_inf: the value cells of the posting-details table
    app_inf,    \* JobFactory.app_inf
    comp_inf,   \* JobFactory.comp_inf
    result,     \* what the last JobFactory(...).make_job() did
    pc,         \* position of the program
    links,      \* Driver.scrape_jobs: job_links, as the pages they open
    next_link,  \* Driver.scrape_jobs: position of the for loop over job_links
    csv,        \* rows written to CSV_OUTPUT
    factories,  \* how many JobFactory objects have been constructed so far
    cell,       \* a cell text handed to one parser
    ret         \* what the parser returned

vars == <<lists, page, job_inf, app_inf, comp_inf, result, pc, links, next_link, csv,
          factories, cell, ret>>

None == <<>>

(***************************************************************************)
(* Python string methods                                                   *)
(***************************************************************************)
Whitespace == {" ", "\n", "\t"}

Char(s, i) == SubSeq(s, i, i)

LowerChar(c) ==
    CASE c = "A" -> "a" [] c = "B" -> "b" [] c = "C" -> "c" [] c = "D" -> "d"
      [] c = "E" -> "e" [] c = "F" -> "f" [] c = "G" -> "g" [] c = "H" -> "h"
      [] c = "I" -> "i" [] c = "J" -> "j" [] c = "K" -> "k" [] c = "L" -> "l"
      [] c = "M" -> "m" [] c = "N" -> "n" [] c = "O" -> "o" [] c = "P" -> "p"
      [] c = "Q" -> "q" [] c = "R" -> "r" [] c = "S" -> "s" [] c = "T" -> "t"
      [] c = "U" -> "u" [] c = "V" -> "v" [] c = "W" -> "w" [] c = "X" -> "x"
      [] c = "Y" -> "y" [] c = "Z" -> "z" [] OTHER -> c

RECURSIVE Lower(_)
Lower(s) == IF s = "" THEN "" ELSE LowerChar(Char(s, 1)) \o Lower(Tail(s))

\* k in s
Contains(s, k) ==
    \E i \in 1..(Len(s) - Len(k) + 1) : SubSeq(s, i, i + Len(k) - 1) = k

RECURSIVE LStrip(_)
LStrip(s) == IF s # "" /\ Char(s, 1) \in Whitespace THEN LStrip(Tail(s)) ELSE s

RECURSIVE RStrip(_)
RStrip(s) ==
    IF s # "" /\ Char(s, Len(s)) \in Whitespace THEN RStrip(SubSeq(s, 1, Len(s) - 1)) ELSE s

\* s.strip()
Strip(s) == RStrip(LStrip(s))

\* s.replace(old, "") for a one-character old
RECURSIVE Remove(_, _)
Remove(s, old) ==
    IF s = "" THEN ""
    ELSE (IF Char(s, 1) = old THEN "" ELSE Char(s, 1)) \o Remove(Tail(s), old)

\* s.split(): the maximal runs of non-whitespace characters
RECURSIVE SplitFrom(_, _)
SplitFrom(s, word) ==
    IF s = "" THEN (IF word = "" THEN <<>> ELSE <<word>>)
    ELSE IF Char(s, 1) \in Whitespace
         THEN (IF word = "" THEN <<>> ELSE <<word>>) \o SplitFrom(Tail(s), "")
         ELSE SplitFrom(Tail(s), word \o Char(s, 1))

Split(s) == SplitFrom(s, "")

\* sep.join(words)
RECURSIVE Join(_, _)
Join(sep, words) ==
    IF words = <<>> THEN ""
    ELSE IF Len(words) = 1 THEN words[1]
    ELSE words[1] \o sep \o Join(sep, Tail(words))

\* list.index(x): the 0-based position of the first x, None when list.index raises ValueError
RECURSIVE IndexFrom(_, _, _)
IndexFrom(list, x, i) ==
    IF i > Len(list) THEN None
    ELSE IF list[i] = x THEN <<i - 1>>
    ELSE IndexFrom(list, x, i + 1)

Index(list, x) == IndexFrom(list, x, 1)

\* list.remove(x): the list without its first x
ListRemove(list, x) ==
    LET i == Index(list, x)
    IN  IF i = None THEN list
        ELSE SubSeq(list, 1, i[1]) \o SubSeq(list, i[1] + 2, Len(list))

\* x in list
InList(list, x) == \E i \in 1..Len(list) : list[i] = x

(***************************************************************************)
(* Constants of job.py                                                     *)
(***************************************************************************)
WFH_KEYWORDS == <<"work from home", "virtual work", "remote work", "hybrid work", "hybrid">>

\* The module-level list FIELD_TITLES as the import leaves it
FIELD_TITLES == <<
    "position title",
    "number of positions",
    "location of work",
    "indicate working arrangements",
    "working from home",
    "duration",
    "salary",
    "work term start",
    "work term end",
    "job description",
    "security screening" >>

\* A call's outcome: a returned value, or the exception it raised and where
Ok(v) == [exc |-> "", at |-> "", val |-> v]

Raise(e, where) == [exc |-> e, at |-> where, val |-> None]

(***************************************************************************)
(* int(word) and float(word)                                               *)
(***************************************************************************)
Digits == {"0", "1", "2", "3", "4", "5", "6", "7", "8", "9"}

DigitVal(c) ==
    CASE c = "0" -> 0 [] c = "1" -> 1 [] c = "2" -> 2 [] c = "3" -> 3 [] c = "4" -> 4
      [] c = "5" -> 5 [] c = "6" -> 6 [] c = "7" -> 7 [] c = "8" -> 8 [] c = "9" -> 9

\* A digit string as Python's numeric literals allow it: digits, single underscores between them
DigitsOK(s) ==
    /\ s # ""
    /\ \A i \in 1..Len(s) : Char(s, i) \in Digits \cup {"_"}
    /\ Char(s, 1) \in Digits
    /\ Char(s, Len(s)) \in Digits
    /\ \A i \in 1..(Len(s) - 1) : ~(Char(s, i) = "_" /\ Char(s, i + 1) = "_")

RECURSIVE DigitsValFrom(_, _)
DigitsValFrom(s, acc) ==
    IF s = "" THEN acc
    ELSE IF Char(s, 1) = "_" THEN DigitsValFrom(Tail(s), acc)
    ELSE DigitsValFrom(Tail(s), 10 * acc + DigitVal(Char(s, 1)))

DigitsVal(s) == DigitsValFrom(s, 0)

\* the number of digits of a digit string
NumDigits(s) == Cardinality({i \in 1..Len(s) : Char(s, i) \in Digits})

Signed(w) == w # "" /\ Char(w, 1) \in {"+", "-"}

Unsigned(w) == IF Signed(w) THEN Tail(w) ELSE w

SignOf(w) == IF w # "" /\ Char(w, 1) = "-" THEN -1 ELSE 1

\* int(word): <<value>>, or None when int raises ValueError
ParseInt(word) ==
    IF DigitsOK(Unsigned(word)) THEN <<SignOf(word) * DigitsVal(Unsigned(word))>> ELSE None

RECURSIVE Pow10(_)
Pow10(n) == IF n = 0 THEN 1 ELSE 10 * Pow10(n - 1)

Abs(n) == IF n < 0 THEN -n ELSE n

RECURSIVE GCD(_, _)
GCD(a, b) == IF b = 0 THEN a ELSE GCD(b, a % b)

\* the rational n/d (d # 0) in lowest terms, its denominator positive
Rat(n, d) ==
    LET g == GCD(Abs(n), Abs(d))
        s == IF d < 0 THEN -1 ELSE 1
    IN  <<(s * n) \div g, (s * d) \div g>>

RatGt(a, b) == a[1] * b[2] > b[1] * a[2]

RatMul(a, b) == Rat(a[1] * b[1], a[2] * b[2])

\* a / b; the caller never divides by zero
RatDiv(a, b) == Rat(a[1] * b[2], a[2] * b[1])

DotAt(s) == CHOOSE i \in 1..Len(s) : Char(s, i) = "." /\ \A j \in 1..(i - 1) : Char(s, j) # "."

\* float(word) for the decimal spellings [sign] digits [. digits]: <<rational>>, or None
\* when float raises ValueError.  Exponents and the inf/nan spellings are spellings the
\* token alphabet of the inputs does not contain.
ParseFloat(word) ==
    LET body == Unsigned(word)
    IN  IF ~Contains(body, ".")
        THEN (IF DigitsOK(body) THEN <<Rat(SignOf(word) * DigitsVal(body), 1)>> ELSE None)
        ELSE LET whole == SubSeq(body, 1, DotAt(body) - 1)
                 frac  == SubSeq(body, DotAt(body) + 1, Len(body))
             IN  IF /\ whole = "" \/ DigitsOK(whole)
                    /\ frac = "" \/ DigitsOK(frac)
                    /\ ~(whole = "" /\ frac = "")
                 THEN <<Rat(SignOf(word) * DigitsVal(whole \o frac), Pow10(NumDigits(frac)))>>
                 ELSE None

(***************************************************************************)
(* datetime.strptime(text, "%B %d, %Y %I:%M %p")                           *)
(***************************************************************************)
MONTHS == <<"january", "february", "march", "april", "may", "june", "july",
            "august", "september", "october", "november", "december">>

AllDigits(s) == s # "" /\ \A i \in 1..Len(s) : Char(s, i) \in Digits

IsLeap(y) == (y % 4 = 0 /\ y % 100 # 0) \/ y % 400 = 0

DaysInMonth(y, m) ==
    IF m = 2 THEN (IF IsLeap(y) THEN 29 ELSE 28)
    ELSE IF m \in {4, 6, 9, 11} THEN 30 ELSE 31

ColonAt(s) == CHOOSE i \in 1..Len(s) : Char(s, i) = ":" /\ \A j \in 1..(i - 1) : Char(s, j) # ":"

\* The directives are separated by whitespace runs (a blank in the format matches \s+),
\* the comma follows the day directly, and the whole text must be consumed.
Strptime(text) ==
    LET t == Split(text)
    IN  IF text # Strip(text) \/ Len(t) # 5 THEN Raise("ValueError", "strptime")
        ELSE LET month == Index(MONTHS, Lower(t[1]))
                 dtok  == t[2]
                 day   == SubSeq(dtok, 1, Len(dtok) - 1)
                 year  == t[3]
                 clock == t[4]
                 hour  == SubSeq(clock, 1, ColonAt(clock) - 1)
                 minute == SubSeq(clock, ColonAt(clock) + 1, Len(clock))
                 ampm  == Lower(t[5])
             IN  IF /\ month # None
                    /\ Char(dtok, Len(dtok)) = ","
                    /\ AllDigits(day) /\ Len(day) <= 2 /\ DigitsVal(day) \in 1..31
                    /\ AllDigits(year) /\ Len(year) = 4 /\ DigitsVal(year) >= 1
                    /\ Contains(clock, ":")
                    /\ AllDigits(hour) /\ Len(hour) <= 2 /\ DigitsVal(hour) \in 1..12
                    /\ AllDigits(minute) /\ Len(minute) <= 2 /\ DigitsVal(minute) \in 0..59
                    /\ ampm \in {"am", "pm"}
                    /\ DigitsVal(day) <= DaysInMonth(DigitsVal(year), month[1] + 1)
                 THEN Ok([year |-> DigitsVal(year), month |-> month[1] + 1,
                          day |-> DigitsVal(day),
                          hour |-> (DigitsVal(hour) % 12) + (IF ampm = "pm" THEN 12 ELSE 0),
                          minute |-> DigitsVal(minute)])
                 ELSE Raise("ValueError", "strptime")

(***************************************************************************)
(* A page: the number of ".table.table-bordered" tables it holds and, of   *)
(* tables[1], tables[2] and tables[3], what the selectors of job.py find:  *)
(*   rows      tables[1]: the label cell (width 25%) and the value cell    *)
(*             (width 75%) of each row, in document order                  *)
(*   deadline  tables[2]: the texts of the elements with the deadline id   *)
(*   company   tables[3]: the texts of the value cells                     *)
(***************************************************************************)

\* Tag.get_text(strip=True) of an element holding one text node
GetText(text) == Strip(text)

\* JobFactory.__get_tables: tables[1], tables[2], tables[3]
__get_tables(source) ==
    IF source.tables < 4 THEN Raise("IndexError", "__get_tables")
    ELSE Ok([job_inf |-> source.rows, app_inf |-> source.deadline, comp_inf |-> source.company])

\* page_fields of __set_page_fields: the label texts, lower-cased, joined by blanks
PageFields(raw_job_inf) ==
    Join(" ", [r \in 1..Len(raw_job_inf) |-> Lower(GetText(raw_job_inf[r].label))])

\* The for loop of __set_page_fields over the list it removes from: the list iterator
\* holds a position i, yields fields[i] while i < len(fields), and moves on by one
\* whether or not the body removed an element.
RECURSIVE RemoveAbsent(_, _, _)
RemoveAbsent(fields, page_fields, i) ==
    IF i >= Len(fields) THEN fields
    ELSE LET field == fields[i + 1]
         IN  IF ~Contains(page_fields, Lower(field))
             THEN RemoveAbsent(ListRemove(fields, field), page_fields, i + 1)
             ELSE RemoveAbsent(fields, page_fields, i + 1)

\* JobFactory.__set_page_fields: self.fields afterwards
__set_page_fields(fields, raw_job_inf) == RemoveAbsent(fields, PageFields(raw_job_inf), 0)

\* job_inf.select('td[width="75%"]')
ValueCells(raw_job_inf) == [r \in 1..Len(raw_job_inf) |-> raw_job_inf[r].value]

\* FIELD_TITLES[k]
FieldTitle(G, k, where) == IF k >= Len(G) THEN Raise("IndexError", where) ELSE Ok(G[k + 1])

\* self.fields.index(FIELD_TITLES[k])
FieldIndex(G, fields, k, where) ==
    LET t == FieldTitle(G, k, where)
    IN  IF t.exc # "" THEN t
        ELSE IF Index(fields, t.val) = None THEN Raise("ValueError", where)
        ELSE Ok(Index(fields, t.val)[1])

\* self.job_inf[index].get_text(strip=True), index being the outcome of FieldIndex
CellText(cells, index, where) ==
    IF index.exc # "" THEN index
    ELSE IF index.val >= Len(cells) THEN Raise("IndexError", where)
    ELSE Ok(GetText(cells[index.val + 1]))

\* JobFactory.__get_company_info
__get_company_info(cells) ==
    IF Len(cells) < 3 THEN Raise("IndexError", "__get_company_info")
    ELSE Ok(<<GetText(cells[2]), GetText(cells[3])>>)

\* lines 157-161 of __get_application_deadline, on the text of the deadline element
ApplicationDeadline(raw_deadline) ==
    LET parsed_deadline == Join(" ", Split(Remove(GetText(raw_deadline), "\n")))
        deadline == Strptime(parsed_deadline)
    IN  IF deadline.exc # "" THEN Raise("ValueError", "__get_application_deadline")
        ELSE deadline

\* JobFactory.__get_application_deadline
__get_application_deadline(found) ==
    IF Len(found) = 0 THEN Raise("IndexError", "__get_application_deadline")
    ELSE ApplicationDeadline(found[1])

\* the words float() converts, in order
RECURSIVE Floats(_)
Floats(words) ==
    IF words = <<>> THEN <<>>
    ELSE (IF ParseFloat(words[1]) = None THEN <<>> ELSE ParseFloat(words[1]))
         \o Floats(Tail(words))

\* SalaryHours returning a lone number as a rate without hours
SalaryHours_unpaired(text) ==
    LET parsed_salary == Remove(GetText(text), "$")
        salary == Floats(Split(parsed_salary))
    IN  IF Len(salary) = 2 /\ salary[1][1] # 0 /\ salary[2][1] # 0
        THEN IF RatGt(salary[1], <<40, 1>>)
             THEN <<RatDiv(salary[1], RatMul(<<4, 1>>, salary[2])), salary[2]>>
             ELSE <<salary[1], salary[2]>>
        ELSE IF Len(salary) = 1 THEN <<salary[1], None>>
        ELSE <<None, None>>

\* SalaryHours taking a first value of 40 for a monthly salary too
SalaryHours_from40(text) ==
    LET parsed_salary == Remove(GetText(text), "$")
        salary == Floats(Split(parsed_salary))
    IN  IF Len(salary) = 2 /\ salary[1][1] # 0 /\ salary[2][1] # 0
        THEN IF ~RatGt(<<40, 1>>, salary[1])
             THEN <<RatDiv(salary[1], RatMul(<<4, 1>>, salary[2])), salary[2]>>
             ELSE <<salary[1], salary[2]>>
        ELSE <<None, None>>

\* lines 169-188 of __get_salary_hours, on the text of the salary cell
SalaryHours(text) ==
    LET parsed_salary == Remove(GetText(text), "$")
        salary == Floats(Split(parsed_salary))
    IN  IF Len(salary) = 2 /\ salary[1][1] # 0 /\ salary[2][1] # 0
        THEN IF RatGt(salary[1], <<40, 1>>)
             THEN <<RatDiv(salary[1], RatMul(<<4, 1>>, salary[2])), salary[2]>>
             ELSE <<salary[1], salary[2]>>
        ELSE <<None, None>>

\* JobFactory.__get_salary_hours
__get_salary_hours(G, fields, cells) ==
    LET text == CellText(cells, FieldIndex(G, fields, 6, "__get_salary_hours"), "__get_salary_hours")
    IN  IF text.exc # "" THEN text ELSE Ok(SalaryHours(text.val))

\* the first word int() converts, 0 when there is none
RECURSIVE FirstInt(_)
FirstInt(words) ==
    IF words = <<>> THEN 0
    ELSE IF ParseInt(words[1]) # None THEN ParseInt(words[1])[1]
    ELSE FirstInt(Tail(words))

\* lines 209-223 of __get_duration, on the text of the duration cell
Duration(text) ==
    LET parsed_duration == GetText(text)
    IN  IF Contains(parsed_duration, "4") THEN 4 ELSE FirstInt(Split(parsed_duration))

\* JobFactory.__get_duration
__get_duration(G, fields, cells) ==
    LET text == CellText(cells, FieldIndex(G, fields, 5, "__get_duration"), "__get_duration")
    IN  IF text.exc # "" THEN text ELSE Ok(Duration(text.val))

\* lines 230-235 of __get_security_screening
SecurityScreening(text) ==
    LET screening == GetText(text)
    IN  ~(Contains(Lower(screening), "no") \/ Contains(Lower(screening), "other"))

\* JobFactory.__get_security_screening
__get_security_screening(G, fields, cells) ==
    LET text == CellText(cells, FieldIndex(G, fields, 10, "__get_security_screening"),
                         "__get_security_screening")
    IN  IF text.exc # "" THEN text ELSE Ok(SecurityScreening(text.val))

\* JobFactory.__get_working_arrangements
__get_working_arrangements(G, fields, cells) ==
    LET where == "__get_working_arrangements"
        arrangements == CellText(cells, FieldIndex(G, fields, 3, where), where)
        wfh_title == FieldTitle(G, 4, where)
        wfh_arrangements == CellText(cells, FieldIndex(G, fields, 4, where), where)
    IN  IF arrangements.exc # "" THEN arrangements
        ELSE IF wfh_title.exc # "" THEN wfh_title
        ELSE IF InList(fields, wfh_title.val)
             THEN IF wfh_arrangements.exc # "" THEN wfh_arrangements
                  ELSE Ok(arrangements.val \o ". " \o wfh_arrangements.val \o ".")
        ELSE Ok(arrangements.val \o ".")

\* __verify_wfh comparing the texts as they are, not lower-cased
__verify_wfh_noLower(G, fields, description, location, arrangements) ==
    IF Contains(location, "virtual") THEN Ok(TRUE)
    ELSE IF FieldTitle(G, 4, "__verify_wfh").exc # "" THEN FieldTitle(G, 4, "__verify_wfh")
    ELSE IF InList(fields, G[5]) THEN Ok(TRUE)
    ELSE Ok(\E k \in 1..Len(WFH_KEYWORDS) :
                \/ Contains(description, WFH_KEYWORDS[k])
                \/ Contains(arrangements, WFH_KEYWORDS[k]))

\* JobFactory.__verify_wfh
__verify_wfh(G, fields, description, location, arrangements) ==
    IF Contains(Lower(location), "virtual") THEN Ok(TRUE)
    ELSE IF FieldTitle(G, 4, "__verify_wfh").exc # "" THEN FieldTitle(G, 4, "__verify_wfh")
    ELSE IF InList(fields, G[5]) THEN Ok(TRUE)
    ELSE Ok(\E k \in 1..Len(WFH_KEYWORDS) :
                \/ Contains(Lower(description), WFH_KEYWORDS[k])
                \/ Contains(Lower(arrangements), WFH_KEYWORDS[k]))

\* int(text) of line 267
Positions(text) ==
    IF ParseInt(text) = None THEN Raise("ValueError", "make_job") ELSE Ok(ParseInt(text)[1])

\* the first call of a sequence of calls that raised, None when none did
RECURSIVE FirstRaised(_)
FirstRaised(calls) ==
    IF calls = <<>> THEN None
    ELSE IF calls[1].exc # "" THEN <<calls[1]>>
    ELSE FirstRaised(Tail(calls))

\* JobFactory.make_job: the Job, or the first exception in the order of its statements
make_job(G, fields, cells, found, company_cells) ==
    LET title_index == FieldIndex(G, fields, 0, "make_job")
        positions_index == FieldIndex(G, fields, 1, "make_job")
        location_index == FieldIndex(G, fields, 2, "make_job")
        description_index == FieldIndex(G, fields, 9, "make_job")
        title == CellText(cells, title_index, "make_job")
        positions_text == CellText(cells, positions_index, "make_job")
        positions == IF positions_text.exc # "" THEN positions_text
                     ELSE Positions(positions_text.val)
        location == CellText(cells, location_index, "make_job")
        description == CellText(cells, description_index, "make_job")
        arrangements == __get_working_arrangements(G, fields, cells)
        company == __get_company_info(company_cells)
        deadline == __get_application_deadline(found)
        salary == __get_salary_hours(G, fields, cells)
        duration == __get_duration(G, fields, cells)
        screening == __get_security_screening(G, fields, cells)
        before_wfh == FirstRaised(<<title_index, positions_index, location_index,
                                    description_index, title, positions, location,
                                    description, arrangements, company, deadline,
                                    salary, duration, screening>>)
        wfh == __verify_wfh(G, fields, description.val, location.val, arrangements.val)
    IN  IF before_wfh # None THEN before_wfh[1]
        ELSE IF wfh.exc # "" THEN wfh
        ELSE Ok([title |-> title.val,
                 company |-> company.val[1],
                 division |-> company.val[2],
                 deadline |-> deadline.val,
                 positions |-> positions.val,
                 location |-> location.val,
                 wfh |-> wfh.val,
                 working_arrangements |-> arrangements.val,
                 duration_in_months |-> duration.val,
                 salary |-> salary.val[1],
                 hours_per_week |-> salary.val[2],
                 description |-> description.val,
                 security_screening |-> screening.val])

(***************************************************************************)
(* The program's state and steps                                           *)
(***************************************************************************)

\* The list object self.fields names after line 106: a copy of FIELD_TITLES, a list of its own
FieldsObject_alias == "FIELD_TITLES"

FieldsObject == "fields"

\* self.fields
SelfFields(ls) == ls[FieldsObject]

\* JobFactory.__init__: the exception it raised, or the list objects and the attributes it leaves
JobFactory(ls, page_source) ==
    LET tables == __get_tables(page_source)
        copied == [ls EXCEPT ![FieldsObject] = ls["FIELD_TITLES"]]
    IN  IF tables.exc # ""
        THEN [exc |-> tables.exc, at |-> tables.at, lists |-> ls,
              job_inf |-> <<>>, app_inf |-> <<>>, comp_inf |-> <<>>]
        ELSE [exc |-> "", at |-> "",
              lists |-> [copied EXCEPT ![FieldsObject] =
                             __set_page_fields(copied[FieldsObject], tables.val.job_inf)],
              job_inf |-> ValueCells(tables.val.job_inf),
              app_inf |-> tables.val.app_inf,
              comp_inf |-> tables.val.comp_inf]

\* JobFactory(page_source).make_job() of line 88: the list objects afterwards and the
\* Job returned or the exception raised
Scrape(ls, page_source) ==
    LET f == JobFactory(ls, page_source)
    IN  [lists |-> f.lists,
         result |-> IF f.exc # "" THEN Raise(f.exc, f.at)
                    ELSE make_job(f.lists["FIELD_TITLES"], SelfFields(f.lists),
                                 f.job_inf, f.app_inf, f.comp_inf)]

\* Job.csv_headers()
csv_headers ==
    <<"Title", "Company", "Division", "Deadline", "Positions", "Location", "WFH",
      "Working arrangements", "Duration in months", "Salary", "Hours per week",
      "Description", "Security screening">>

NoPage == [tables |-> 0, rows |-> <<>>, deadline |-> <<>>, company |-> <<>>]

NotCalled == [exc |-> "", at |-> "not called", val |-> None]

\* Job.to_csv_row
to_csv_row(job) ==
    <<job.title, job.company, job.division, job.deadline, job.positions, job.location,
      job.wfh, job.working_arrangements, job.duration_in_months, job.salary,
      job.hours_per_week, job.description, job.security_screening>>

(***************************************************************************)
(* Pages                                                                   *)
(***************************************************************************)
NumFields == Len(FIELD_TITLES)

\* the label cells of the portal, by catalog position
LABELS == <<
    "Position Title:",
    "Number of Positions:",
    "Location of Work:",
    "Indicate Working Arrangements:",
    "Working from Home:",
    "Duration:",
    "Salary:",
    "Work Term Start:",
    "Work Term End:",
    "Job Description:",
    "Security Screening:" >>

DefaultValues == <<
    "Software Developer",
    " 2 ",
    "Ottawa, ON",
    "On-site",
    "Up to two days a week",
    "8 months",
    "$22.50 20",
    "May 2024",
    "August 2024",
    "Build embedded software",
    "No" >>

DefaultDeadline == "March  3,\n      2024   11:59 PM"

DefaultCompany == <<"", "Acme Robotics", "Research">>

RECURSIVE Ascending(_, _)
Ascending(S, k) ==
    IF k > NumFields THEN <<>>
    ELSE (IF k \in S THEN <<k>> ELSE <<>>) \o Ascending(S, k + 1)

\* the rows of a posting-details table showing the fields `present` (catalog positions,
\* 1-based), in catalog order, each label row with its one value cell
Rows(present, values) ==
    LET ks == Ascending(present, 1)
    IN  [r \in 1..Len(ks) |-> [label |-> LABELS[ks[r]], value |-> values[ks[r]]]]

Page(present, values) ==
    [tables |-> 4, rows |-> Rows(present, values),
     deadline |-> <<DefaultDeadline>>, company |-> DefaultCompany]

AllFields == 1..NumFields

\* every subset of the catalog as the labels of a page
LabelPages == {Page(present, DefaultValues) : present \in SUBSET AllFields}

OptionalFields == {5, 6, 7}

Locations == {"Ottawa, ON", "Virtual"}

Descriptions == {"Build embedded software", "Some Remote Work possible", "A hybridized team"}

Arrangements == {"On-site", "Hybrid Work"}

Salaries == {"$22.50 20", "$3600 20", "Not available", "25", "0 20"}

TextPages ==
    {Page(AllFields \ absent,
          [DefaultValues EXCEPT ![3] = loc, ![4] = arr, ![7] = sal, ![10] = desc]) :
        absent \in SUBSET OptionalFields, loc \in Locations, arr \in Arrangements,
        sal \in Salaries, desc \in Descriptions}

GoodPage == Page(AllFields, DefaultValues)

\* pages off the expected layout
StructurePages ==
    { [GoodPage EXCEPT !.tables = 3],
      [GoodPage EXCEPT !.deadline = <<>>],
      [GoodPage EXCEPT !.deadline = <<"March 3, 11:59 PM">>],
      [GoodPage EXCEPT !.company = <<"", "Acme Robotics">>] }

Pages == TextPages \cup StructurePages

(***************************************************************************)
(* Spec: factories made and used one after another                         *)
(***************************************************************************)
\* how many factories one run constructs
MaxFactories == 3

Init ==
    /\ lists = [FIELD_TITLES |-> FIELD_TITLES, fields |-> <<>>]
    /\ page = NoPage
    /\ job_inf = <<>>
    /\ app_inf = <<>>
    /\ comp_inf = <<>>
    /\ result = NotCalled
    /\ pc = "idle"
    /\ links = <<>>
    /\ next_link = 0
    /\ csv = <<>>
    /\ factories = 0
    /\ cell = ""
    /\ ret = NotCalled

\* a page source is at hand; an earlier factory is no longer referenced
LoadPage(source) ==
    /\ pc \in {"idle", "made", "raised"}
    /\ factories < MaxFactories
    /\ page' = source
    /\ lists' = [lists EXCEPT !.fields = <<>>]
    /\ job_inf' = <<>>
    /\ app_inf' = <<>>
    /\ comp_inf' = <<>>
    /\ result' = NotCalled
    /\ pc' = "loaded"
    /\ UNCHANGED <<links, next_link, csv, factories, cell, ret>>

\* factory = JobFactory(page)
NewJobFactory ==
    /\ pc = "loaded"
    /\ LET f == JobFactory(lists, page)
       IN  /\ lists' = f.lists
           /\ job_inf' = f.job_inf
           /\ app_inf' = f.app_inf
           /\ comp_inf' = f.comp_inf
           /\ result' = IF f.exc # "" THEN Raise(f.exc, f.at) ELSE NotCalled
           /\ pc' = IF f.exc # "" THEN "raised" ELSE "constructed"
    /\ factories' = factories + 1
    /\ UNCHANGED <<page, links, next_link, csv, cell, ret>>

\* factory.make_job()
CallMakeJob ==
    /\ pc = "constructed"
    /\ result' = make_job(lists["FIELD_TITLES"], SelfFields(lists), job_inf, app_inf, comp_inf)
    /\ pc' = IF result'.exc # "" THEN "raised" ELSE "made"
    /\ UNCHANGED <<lists, page, job_inf, app_inf, comp_inf, links, next_link, csv,
                   factories, cell, ret>>

Next ==
    \/ \E source \in Pages : LoadPage(source)
    \/ NewJobFactory
    \/ CallMakeJob

Spec == Init /\ [][Next]_vars

\* SpecIndex: one factory for each subset of the catalog as the labels of the page
InitIndex ==
    /\ lists = [FIELD_TITLES |-> FIELD_TITLES, fields |-> <<>>]
    /\ page \in LabelPages
    /\ job_inf = <<>>
    /\ app_inf = <<>>
    /\ comp_inf = <<>>
    /\ result = NotCalled
    /\ pc = "loaded"
    /\ links = <<>>
    /\ next_link = 0
    /\ csv = <<>>
    /\ factories = 0
    /\ cell = ""
    /\ ret = NotCalled

NextIndex ==
    \/ NewJobFactory
    \/ CallMakeJob

SpecIndex == InitIndex /\ [][NextIndex]_vars

(***************************************************************************)
(* SpecBatch: Driver.scrape_jobs over the job links of the shortlist       *)
(***************************************************************************)
\* how many job links the shortlist holds
MaxBatch == 3

VirtualPage == Page(AllFields \ {5}, [DefaultValues EXCEPT ![3] = "Virtual", ![7] = "$3600 20"])

BatchPages ==
    { GoodPage,
      VirtualPage,
      [GoodPage EXCEPT !.tables = 3],
      Page(AllFields \ {7}, DefaultValues) }

InitBatch ==
    /\ lists = [FIELD_TITLES |-> FIELD_TITLES, fields |-> <<>>]
    /\ page = NoPage
    /\ job_inf = <<>>
    /\ app_inf = <<>>
    /\ comp_inf = <<>>
    /\ result = NotCalled
    /\ pc = "start"
    /\ links \in UNION {[1..n -> BatchPages] : n \in 1..MaxBatch}
    /\ next_link = 0
    /\ csv = <<>>
    /\ factories = 0
    /\ cell = ""
    /\ ret = NotCalled

\* lines 65-79: the links are collected, the file is opened and the header row written
StartScrape ==
    /\ pc = "start"
    /\ csv' = <<csv_headers>>
    /\ next_link' = 0
    /\ pc' = "loop"
    /\ UNCHANGED <<lists, page, job_inf, app_inf, comp_inf, result, links, factories, cell, ret>>

\* lines 81-94: one turn of the loop.  An exception of line 88 is caught nowhere: it
\* leaves the with block, scrape_jobs and main.
ScrapeLink ==
    /\ pc = "loop"
    /\ next_link < Len(links)
    /\ page' = links[next_link + 1]
    /\ LET f == JobFactory(lists, links[next_link + 1])
           s == Scrape(lists, links[next_link + 1])
       IN  /\ lists' = s.lists
           /\ job_inf' = f.job_inf
           /\ app_inf' = f.app_inf
           /\ comp_inf' = f.comp_inf
           /\ result' = s.result
           /\ IF s.result.exc # ""
              THEN /\ pc' = "aborted"
                   /\ UNCHANGED <<csv, next_link>>
              ELSE /\ csv' = Append(csv, to_csv_row(s.result.val))
                   /\ next_link' = next_link + 1
                   /\ pc' = "loop"
    /\ factories' = factories + 1
    /\ UNCHANGED <<links, cell, ret>>

\* line 96: the loop is over
FinishScrape ==
    /\ pc = "loop"
    /\ next_link = Len(links)
    /\ pc' = "done"
    /\ UNCHANGED <<lists, page, job_inf, app_inf, comp_inf, result, links, next_link, csv,
                   factories, cell, ret>>

NextBatch ==
    \/ StartScrape
    \/ ScrapeLink
    \/ FinishScrape

SpecBatch == InitBatch /\ [][NextBatch]_vars

(***************************************************************************)
(* SpecParse: one parser applied to one cell text                          *)
(***************************************************************************)
\* how many words a salary or duration text holds
MaxWords == 3

SalaryWords == {"$22.50", "20", "$3600", "Not", "available", "0", "40", "-5"}

DurationWords == {"4", "8", "-8", "months", "or", "12", "+8"}

WordsJoined(words) ==
    {Join(" ", ws) : ws \in UNION {[1..n -> words] : n \in 0..MaxWords}}

DeadlineTexts ==
    {month \o gap1 \o day \o gap2 \o year \o "   " \o clock \o gap4 \o ampm :
        month \in {"March", "february", "Mar"},
        gap1 \in {" ", "  "},
        day \in {"3,", "30,", "3"},
        gap2 \in {" ", "\n", "\n      ", "  \n"},
        year \in {"2024", "24"},
        clock \in {"11:59", "12:00", "13:00"},
        gap4 \in {" ", "\n"},
        ampm \in {"PM", "am"}}

CellTexts == WordsJoined(SalaryWords) \cup WordsJoined(DurationWords) \cup DeadlineTexts

InitParse ==
    /\ lists = [FIELD_TITLES |-> FIELD_TITLES, fields |-> <<>>]
    /\ page = NoPage
    /\ job_inf = <<>>
    /\ app_inf = <<>>
    /\ comp_inf = <<>>
    /\ result = NotCalled
    /\ pc = "cell"
    /\ links = <<>>
    /\ next_link = 0
    /\ csv = <<>>
    /\ factories = 0
    /\ cell \in CellTexts
    /\ ret = NotCalled

CallSalaryHours ==
    /\ pc = "cell"
    /\ ret' = Ok(SalaryHours(cell))
    /\ pc' = "salary"
    /\ UNCHANGED <<lists, page, job_inf, app_inf, comp_inf, result, links, next_link, csv,
                   factories, cell>>

CallDuration ==
    /\ pc = "cell"
    /\ ret' = Ok(Duration(cell))
    /\ pc' = "duration"
    /\ UNCHANGED <<lists, page, job_inf, app_inf, comp_inf, result, links, next_link, csv,
                   factories, cell>>

CallApplicationDeadline ==
    /\ pc = "cell"
    /\ ret' = ApplicationDeadline(cell)
    /\ pc' = "deadline"
    /\ UNCHANGED <<lists, page, job_inf, app_inf, comp_inf, result, links, next_link, csv,
                   factories, cell>>

NextParse ==
    \/ CallSalaryHours
    \/ CallDuration
    \/ CallApplicationDeadline

SpecParse == InitParse /\ [][NextParse]_vars

(***************************************************************************)
(* Properties of the field indexer (SpecIndex)                             *)
(***************************************************************************)
IsTitle(title) == Contains(PageFields(page.rows), Lower(title))

\* the catalog titles found in the label text of the page, in catalog order
TitlesOnPage == SelectSeq(FIELD_TITLES, IsTitle)

\* C1: after JobFactory construction self.fields holds exactly the catalog titles whose
\* lower-cased text is a substring of the concatenated label text, in catalog order.
C1_ExactFilter == pc = "constructed" => SelfFields(lists) = TitlesOnPage

\* C2: after JobFactory construction self.fields is as long as self.job_inf, each label
\* row of the page carrying one value cell.
C2_FieldPresence == pc = "constructed" => Len(SelfFields(lists)) = Len(job_inf)

(***************************************************************************)
(* Properties of make_job (Spec)                                           *)
(***************************************************************************)
\* make_job has been called on the factory of the page and has returned or raised
MakeJobDone == pc = "made" \/ (pc = "raised" /\ result.at # "__get_tables")

\* C3: when the salary field is not in self.fields, make_job does not fail for it, and
\* the Job it returns has salary None and hours_per_week None.
C3_SalaryOptional ==
    (MakeJobDone /\ ~InList(SelfFields(lists), "salary")) =>
        /\ result.at # "__get_salary_hours"
        /\ result.exc = "" => (result.val.salary = None /\ result.val.hours_per_week = None)

\* C8: in every Job make_job returns, salary is None exactly when hours_per_week is None.
C8_SalaryPairing ==
    pc = "made" => ((result.val.salary = None) <=> (result.val.hours_per_week = None))

C8_Witness ==
    /\ pc = "made"
    /\ result.val.salary = None
    /\ result.val.hours_per_week = None

\* the text of the value cell of the row labelled with catalog position k (1-based),
\* "" when the page has no such row
RowText(k) ==
    LET rs == SelectSeq(page.rows, LAMBDA r : r.label = LABELS[k])
    IN  IF rs = <<>> THEN "" ELSE GetText(rs[1].value)

HasKeyword(text) == \E k \in 1..Len(WFH_KEYWORDS) : Contains(Lower(text), WFH_KEYWORDS[k])

\* C9: in every Job make_job returns, wfh is true exactly when the working-from-home
\* field is in self.fields, or the lower-cased location text contains "virtual", or a
\* keyword is a substring of the lower-cased description or arrangement text.
C9_WfhInference ==
    pc = "made" =>
        (result.val.wfh <=>
            \/ InList(SelfFields(lists), "working from home")
            \/ Contains(Lower(RowText(3)), "virtual")
            \/ HasKeyword(RowText(10))
            \/ HasKeyword(RowText(4)))

\* the working-from-home field is present and no other text speaks of remote work
C9_Witness ==
    /\ pc = "made"
    /\ result.val.wfh
    /\ InList(SelfFields(lists), "working from home")
    /\ ~Contains(Lower(RowText(3)), "virtual")
    /\ ~HasKeyword(RowText(10))
    /\ ~HasKeyword(RowText(4))

\* what processing the page does when it is the first page processed
ProcessedFirst ==
    LET first == [FIELD_TITLES |-> FIELD_TITLES, fields |-> <<>>]
        f == JobFactory(first, page)
    IN  IF f.exc # "" THEN Raise(f.exc, f.at)
        ELSE make_job(first["FIELD_TITLES"], f.lists["fields"], f.job_inf, f.app_inf, f.comp_inf)

\* C10: constructing a factory and calling make_job leave the module-level FIELD_TITLES
\* as it was, and after any pages processed before, a page gets the self.fields and the
\* outcome (the Job or the failure) it gets when processed first.
C10_NoSharedState ==
    /\ lists["FIELD_TITLES"] = FIELD_TITLES
    /\ pc \in {"constructed", "made"} => SelfFields(lists) = __set_page_fields(FIELD_TITLES, page.rows)
    /\ pc \in {"made", "raised"} => result = ProcessedFirst

\* a Job made by the third factory of the run, from a page lacking a catalog field
C10_Witness ==
    /\ pc = "made"
    /\ factories = MaxFactories
    /\ Len(SelfFields(lists)) < NumFields

(***************************************************************************)
(* Properties of scrape_jobs (SpecBatch)                                   *)
(***************************************************************************)
\* the link at position k (1-based) has been clicked
Visited(k) == k <= next_link \/ (pc = "aborted" /\ k = next_link + 1)

\* what processing a page by itself gives
Alone(source) == Scrape([FIELD_TITLES |-> FIELD_TITLES, fields |-> <<>>], source).result

\* C4: when scrape_jobs has ended, every link of the batch has been visited and every
\* page that parses has its row in the output, whatever pages before it failed.
C4_BatchRobust ==
    pc \in {"done", "aborted"} =>
        \A k \in 1..Len(links) :
            /\ Visited(k)
            /\ Alone(links[k]).exc = "" =>
                   \E r \in 2..Len(csv) : csv[r] = to_csv_row(Alone(links[k]).val)

(***************************************************************************)
(* Properties of the parsers (SpecParse)                                   *)
(***************************************************************************)
\* C5: the duration returned for a duration cell text is never negative.
C5_DurationBound == pc = "duration" => ret.val >= 0

\* the text with every line break and every run of whitespace replaced by one blank
SingleSpaced(text) == Join(" ", Split(text))

\* C6: the deadline is parsed from the text with every line break and every run of
\* whitespace replaced by a single blank; "March  3,<newline>2024   11:59 PM" gives
\* 3 March 2024, 23:59.
C6_DeadlineNormalized ==
    pc = "deadline" =>
        /\ ret.exc = Strptime(SingleSpaced(cell)).exc
        /\ ret.val = Strptime(SingleSpaced(cell)).val
        /\ cell = "March  3,\n2024   11:59 PM" =>
               ret.val = [year |-> 2024, month |-> 3, day |-> 3, hour |-> 23, minute |-> 59]

IsNumber(word) == ParseFloat(word) # None

\* the numeric tokens of a salary text: currency signs dropped, split at whitespace
NumericTokens(text) == SelectSeq(Split(Remove(text, "$")), IsNumber)

\* C7: the salary parser returns (None, None) unless the text holds exactly two numeric
\* tokens, neither zero; then (r, h) for a first value r of at most 40, and
\* (r / (4 * h), h) for a larger one.
C7_SalaryRule ==
    pc = "salary" =>
        LET tokens == NumericTokens(cell)
            r == ParseFloat(tokens[1])[1]
            h == ParseFloat(tokens[2])[1]
        IN  /\ IF Len(tokens) = 2 /\ r # <<0, 1>> /\ h # <<0, 1>>
               THEN IF r[1] <= 40 * r[2]
                    THEN ret.val = <<r, h>>
                    ELSE /\ ret.val[2] = h
                         /\ ret.val[1][1] * 4 * h[1] * r[2] = r[1] * h[2] * ret.val[1][2]
               ELSE ret.val = <<None, None>>
            /\ cell = "$22.50 20" => ret.val = <<(<<45, 2>>), (<<20, 1>>)>>
            /\ cell = "$3600 20" => ret.val = <<(<<45, 1>>), (<<20, 1>>)>>
            /\ cell = "Not available" => ret.val = <<None, None>>

\* a monthly salary turned into an hourly rate
C7_Witness ==
    /\ pc = "salary"
    /\ cell = "$3600 20"
    /\ ret.val = <<(<<45, 1>>), (<<20, 1>>)>>

====
